---- MODULE Spec2Model ----
(***************************************************************************)
(* Model of the conversation session store of src/server.js: the           *)
(* process-wide Map `conversations`, the helpers resolveModel and          *)
(* getConversation, and the handlers POST /conversation,                   *)
(* GET /conversation/:id, DELETE /conversation/:id, POST /chat and         *)
(* POST /chat/stream.                                                      *)
(*                                                                         *)
(* POST /conversation is an async handler: it runs synchronously up to the *)
(* `await client.chatCompletion(...)` of line 203 (ConversationStart), is  *)
(* suspended there, and resumes either after the await                     *)
(* (ConversationSucceed, lines 210-223) or in the catch block              *)
(* (ConversationFail, lines 224-227).  Other requests run in between.      *)
(*                                                                         *)
(* Session objects live in `heap`; the Map holds references to them, and   *)
(* so does the local `storedConvo` of a suspended handler.                 *)
(*                                                                         *)
(* Spec     every handler, several sessions, interleaved requests, few     *)
(*          turns                                                          *)
(* SpecSeq  one client and one session, enough turns to pass the history   *)
(*          limit, gateway failures                                        *)
(* SpecRace two clients on one session, enough turns to pass the limit     *)
(* SpecFair  turns and deletes, every gateway call returning or failing     *)
(* SpecModel one client, model overrides of every kind                      *)
(* SpecChat  POST /chat and POST /chat/stream beside a session              *)
(***************************************************************************)
EXTENDS Integers, Sequences, FiniteSets, TLC

\* ------------------------------------------------------------------ bounds
\* POST /conversation requests accepted in one behaviour of Spec
MaxTurns == 2
\* POST /conversation requests accepted in one behaviour of SpecSeq, SpecRace
MaxSeqTurns == 11
\* request handlers that can be suspended on the gateway at once
MaxInFlight == 2
\* POST /conversation requests accepted in one behaviour of SpecModel
MaxModelTurns == 3
\* chunks one stream of SpecChat delivers
MaxChunks == 3

Procs == 1..MaxInFlight

\* ------------------------------------------------------- program constants
\* the literal of `messages.length > 20` and `slice(-20)`
HistoryLimit == 20

DEFAULT_MODEL == "llama3"

DefaultPrompt == "You are a helpful, friendly AI assistant."

\* a property that every object literal inherits from Object.prototype
ProtoKeys == {"constructor"}

\* the shorthand keys of MODELS
Aliases == {"llama3", "mistral", "phi3", "qwen", "gemma"}

\* what MODELS[key] evaluates to; "" stands for undefined
MODELS(key) ==
    CASE key = "llama3"  -> "meta-llama/Llama-3.1-8B-Instruct"
      [] key = "mistral" -> "mistralai/Mistral-7B-Instruct-v0.3"
      [] key = "phi3"    -> "microsoft/Phi-3-mini-4k-instruct"
      [] key = "qwen"    -> "Qwen/Qwen2.5-7B-Instruct"
      [] key = "gemma"   -> "google/gemma-2-9b-it"
      [] key \in ProtoKeys -> "[Function: Object]"
      [] OTHER -> ""

\* ------------------------------------------------------------ value model
\* "" stands for a field that is absent from the request body (or empty):
\* every test the handlers make on these fields is a truthiness test
Empty == ""
NoId == ""
\* the field updatedAt of a session that has had no reply yet
Undefined == 0

\* the text of the n-th accepted POST /conversation request, and of the
\* gateway's reply to it: all distinct, so that an entry of a transcript
\* identifies the request it came from
UserText(n) == "m" \o ToString(n)
ReplyText(n) == "r" \o ToString(n)

\* the k-th value returned by randomUUID(): never equal to an earlier one
UUID(k) == "uuid-" \o ToString(k)

\* a conversationId that JSON delivered as a (non-zero) number
NumericId == "#7"
IsString(id) == id # NumericId

Message(role, content) == [role |-> role, content |-> content]

\* the content of the k-th chunk of a stream, when it has any
FragmentText(k) == "f" \o ToString(k)

\* error.message of what the gateway throws
GatewayError == "gateway error"

\* slice(0, n) in the place of slice(-n): the oldest entries are kept
SliceFirst(s, n) == SubSeq(s, 1, IF Len(s) > n THEN n ELSE Len(s))

\* Array.prototype.slice(-n)
SliceLast(s, n) == SubSeq(s, IF Len(s) > n THEN Len(s) - n + 1 ELSE 1, Len(s))

VARIABLES
    conversations,  \* the Map: a function from the live ids to heap references
    heap,           \* the session objects, by reference (1..Len(heap))
    req,            \* per handler slot: idle, or suspended on the gateway call
    response,       \* the HTTP response written by the last step, if any
    clock,          \* the time the last `new Date()` returned
    nuuid,          \* randomUUID() calls so far
    requests,       \* history: per accepted POST /conversation request, the
                    \* body, the session object as the handler found it, the
                    \* handler's locals, the arguments of its gateway call,
                    \* the state of the promise that call returned and the
                    \* statuses of the responses written for it
    appended,       \* history: per object, every message ever pushed onto it,
                    \* tagged with the request that pushed it
    chat            \* the stateless handler (POST /chat, POST /chat/stream)
                    \* last started: its request body, its gateway call, the
                    \* deltas the stream has produced (history) and what the
                    \* handler has written to its response so far

vars == <<conversations, heap, req, response, clock, nuuid, requests, appended,
          chat>>

Live == DOMAIN conversations

nturns == Len(requests)

\* a slot that holds no suspended handler
Idle == [pc |-> "idle", turn |-> 0]

\* the step wrote no response (the handler is suspended on the gateway)
NoResponse == [op |-> "none", id |-> NoId, status |-> 0, turn |-> 0,
               reply |-> Empty, messageCount |-> 0]

Response(op, id, status) == [NoResponse EXCEPT !.op = op, !.id = id, !.status = status]

\* no stateless request has been made
NoChat == [op |-> "none", pc |-> "idle",
           body |-> [message |-> Empty, model |-> Empty, systemPrompt |-> Empty],
           calls |-> 0, call |-> [model |-> Empty, messages |-> <<>>],
           chunks |-> 0, produced |-> <<>>, fullResponse |-> Empty,
           written |-> <<>>, ended |-> FALSE]

\* an event of the SSE body of POST /chat/stream: the object that line 146,
\* 150 or 157 serializes (a field the object lacks is Empty here)
Event(content, done, fullResponse, error) ==
    [content |-> content, done |-> done, fullResponse |-> fullResponse,
     error |-> error]

Init ==
    /\ conversations = <<>>
    /\ heap = <<>>
    /\ req = [p \in Procs |-> Idle]
    /\ response = NoResponse
    /\ clock = 0
    /\ nuuid = 0
    /\ requests = <<>>
    /\ appended = <<>>
    /\ chat = NoChat

\* ---------------------------------------------------------------- helpers
resolveModel(model) ==
    IF model = Empty THEN MODELS(DEFAULT_MODEL)
    ELSE IF MODELS(model) # "" THEN MODELS(model)
    ELSE model

\* a lookup that never finds the id: every call registers a new session
getConversationAlwaysNew(convs, objs, conversationId, uuid, now) ==
    LET id == IF conversationId # NoId THEN conversationId ELSE uuid
        convo == [messages |-> <<>>, systemPrompt |-> DefaultPrompt,
                  model |-> MODELS(DEFAULT_MODEL), createdAt |-> now,
                  updatedAt |-> Undefined]
    IN  [convo |-> [id |-> id, messages |-> convo.messages,
                    systemPrompt |-> convo.systemPrompt,
                    model |-> convo.model, createdAt |-> convo.createdAt,
                    updatedAt |-> convo.updatedAt],
         created |-> TRUE,
         conversations |-> [k \in DOMAIN convs \cup {id} |->
                              IF k = id THEN Len(objs) + 1 ELSE convs[k]],
         heap |-> Append(objs, convo)]

\* a new session bound to the alias DEFAULT_MODEL, not to the id it stands for
getConversationAliasModel(convs, objs, conversationId, uuid, now) ==
    IF conversationId # NoId /\ conversationId \in DOMAIN convs
    THEN LET o == objs[convs[conversationId]]
         IN  [convo |-> [id |-> conversationId, messages |-> o.messages,
                         systemPrompt |-> o.systemPrompt, model |-> o.model,
                         createdAt |-> o.createdAt, updatedAt |-> o.updatedAt],
              created |-> FALSE, conversations |-> convs, heap |-> objs]
    ELSE LET id == IF conversationId # NoId THEN conversationId ELSE uuid
             convo == [messages |-> <<>>, systemPrompt |-> DefaultPrompt,
                       model |-> DEFAULT_MODEL, createdAt |-> now,
                       updatedAt |-> Undefined]
         IN  [convo |-> [id |-> id, messages |-> convo.messages,
                         systemPrompt |-> convo.systemPrompt,
                         model |-> convo.model, createdAt |-> convo.createdAt,
                         updatedAt |-> convo.updatedAt],
              created |-> TRUE,
              conversations |-> [k \in DOMAIN convs \cup {id} |->
                                   IF k = id THEN Len(objs) + 1 ELSE convs[k]],
              heap |-> Append(objs, convo)]

\* a new session whose transcript starts with the system prompt
getConversationSeeded(convs, objs, conversationId, uuid, now) ==
    IF conversationId # NoId /\ conversationId \in DOMAIN convs
    THEN LET o == objs[convs[conversationId]]
         IN  [convo |-> [id |-> conversationId, messages |-> o.messages,
                         systemPrompt |-> o.systemPrompt, model |-> o.model,
                         createdAt |-> o.createdAt, updatedAt |-> o.updatedAt],
              created |-> FALSE, conversations |-> convs, heap |-> objs]
    ELSE LET id == IF conversationId # NoId THEN conversationId ELSE uuid
             convo == [messages |-> <<Message("system", DefaultPrompt)>>,
                       systemPrompt |-> DefaultPrompt,
                       model |-> MODELS(DEFAULT_MODEL), createdAt |-> now,
                       updatedAt |-> Undefined]
         IN  [convo |-> [id |-> id, messages |-> convo.messages,
                         systemPrompt |-> convo.systemPrompt,
                         model |-> convo.model, createdAt |-> convo.createdAt,
                         updatedAt |-> convo.updatedAt],
              created |-> TRUE,
              conversations |-> [k \in DOMAIN convs \cup {id} |->
                                   IF k = id THEN Len(objs) + 1 ELSE convs[k]],
              heap |-> Append(objs, convo)]

\* getConversation(conversationId) run on the store (convs, objs); uuid is
\* what randomUUID() would return and now what new Date() would return.
\* Yields the returned snapshot `convo` and the store after the call.
getConversation(convs, objs, conversationId, uuid, now) ==
    IF conversationId # NoId /\ conversationId \in DOMAIN convs
    THEN LET o == objs[convs[conversationId]]
         IN  [convo |-> [id |-> conversationId, messages |-> o.messages,
                         systemPrompt |-> o.systemPrompt, model |-> o.model,
                         createdAt |-> o.createdAt, updatedAt |-> o.updatedAt],
              created |-> FALSE, conversations |-> convs, heap |-> objs]
    ELSE LET id == IF conversationId # NoId THEN conversationId ELSE uuid
             convo == [messages |-> <<>>, systemPrompt |-> DefaultPrompt,
                       model |-> MODELS(DEFAULT_MODEL), createdAt |-> now,
                       updatedAt |-> Undefined]
         IN  [convo |-> [id |-> id, messages |-> convo.messages,
                         systemPrompt |-> convo.systemPrompt,
                         model |-> convo.model, createdAt |-> convo.createdAt,
                         updatedAt |-> convo.updatedAt],
              created |-> TRUE,
              conversations |-> [k \in DOMAIN convs \cup {id} |->
                                   IF k = id THEN Len(objs) + 1 ELSE convs[k]],
              heap |-> Append(objs, convo)]

\* an override of the model that is used for nothing
ApplyOverridesPromptOnly(session, model, systemPrompt) ==
    [session EXCEPT
       !.systemPrompt = IF systemPrompt # Empty THEN systemPrompt ELSE @]

\* lines 184-185: the overrides a request carries replace the session's
\* prompt and model
ApplyOverrides(session, model, systemPrompt) ==
    [session EXCEPT
       !.systemPrompt = IF systemPrompt # Empty THEN systemPrompt ELSE @,
       !.model = IF model # Empty THEN resolveModel(model) ELSE @]

\* the transcript kept by lines 197-199
Truncate(messages) ==
    IF Len(messages) > HistoryLimit THEN SliceLast(messages, HistoryLimit)
    ELSE messages

\* the list built from the transcript as lines 197-199 leave it
BuildMessagesTruncated(systemPrompt, transcript) ==
    <<Message("system", systemPrompt)>> \o Truncate(transcript)

\* a list that carries the newest entry of the transcript only
BuildMessagesLastOnly(systemPrompt, transcript) ==
    <<Message("system", systemPrompt)>> \o SliceLast(transcript, 1)

\* the list sent to the gateway, lines 191-194
BuildMessages(systemPrompt, transcript) ==
    <<Message("system", systemPrompt)>> \o transcript

\* an entry of the history `appended`
Pushed(role, content, turn) == [role |-> role, content |-> content, turn |-> turn]

\* --------------------------------------------------------------- handlers
\* a validation that comes after the lookup: the request is rejected, and a
\* session has been registered for it
ConversationInvalidCreates ==
    /\ LET g == getConversation(conversations, heap, NoId, UUID(nuuid + 1), clock + 1)
       IN  /\ conversations' = g.conversations
           /\ heap' = g.heap
    /\ appended' = Append(appended, <<>>)
    /\ clock' = clock + 1
    /\ nuuid' = nuuid + 1
    /\ response' = Response("conversation", NoId, 400)
    /\ UNCHANGED <<req, requests, chat>>

\* POST /conversation with a missing or empty message: lines 175-177
ConversationInvalid ==
    /\ response' = Response("conversation", NoId, 400)
    /\ UNCHANGED <<conversations, heap, req, clock, nuuid, requests, appended, chat>>

\* POST /conversation, lines 166-208: from the request to the gateway call
ConversationStart(p, message, conversationId, model, systemPrompt) ==
    /\ req[p].pc = "idle"
    /\ message # Empty
    /\ LET n == nturns + 1
           g == getConversation(conversations, heap, conversationId,
                                UUID(nuuid + 1), clock + 1)
           ref == g.conversations[g.convo.id]
           s0 == g.heap[ref]
           s1 == ApplyOverrides(s0, model, systemPrompt)
           pushed == Append(s1.messages, Message("user", message))
           messages == BuildMessages(s1.systemPrompt, pushed)
           log == IF g.created THEN Append(appended, <<>>) ELSE appended
           \* convo.id.slice(0, 8) of line 201 throws on a number: the catch
           \* block answers 500 and the gateway is never called
           called == IsString(g.convo.id)
       IN  /\ conversations' = g.conversations
           /\ heap' = [g.heap EXCEPT ![ref] = [s1 EXCEPT !.messages = Truncate(pushed)]]
           /\ appended' = [log EXCEPT ![ref] = Append(@, Pushed("user", message, n))]
           /\ clock' = IF g.created THEN clock + 1 ELSE clock
           /\ nuuid' = IF conversationId = NoId THEN nuuid + 1 ELSE nuuid
           /\ requests' = Append(requests,
                 [body |-> [message |-> message, conversationId |-> conversationId,
                            model |-> model, systemPrompt |-> systemPrompt],
                  before |-> s0, created |-> g.created,
                  convo |-> g.convo, storedConvo |-> ref,
                  calls |-> IF called THEN 1 ELSE 0,
                  gateway |-> IF called THEN "pending" ELSE "none",
                  answers |-> IF called THEN <<>> ELSE <<500>>,
                  call |-> IF called THEN [model |-> s1.model, messages |-> messages]
                           ELSE [model |-> Empty, messages |-> <<>>]])
           /\ req' = IF called THEN [req EXCEPT ![p] = [pc |-> "await", turn |-> n]]
                     ELSE req
           /\ response' = IF called THEN NoResponse
                          ELSE [Response("conversation", g.convo.id, 500) EXCEPT !.turn = n]
    /\ UNCHANGED chat

\* a handler that writes back the transcript it sent, with the reply added:
\* what another turn pushed in the meantime is lost
ConversationSucceedStale(p, content) ==
    /\ req[p].pc = "await"
    /\ LET n == req[p].turn
           ref == requests[n].storedConvo
           reply == IF content # Empty THEN content ELSE Empty
           pushed == Append(Tail(requests[n].call.messages), Message("assistant", reply))
       IN  /\ heap' = [heap EXCEPT ![ref] = [@ EXCEPT !.messages = pushed,
                                                      !.updatedAt = clock + 1]]
           /\ appended' = [appended EXCEPT ![ref] = Append(@, Pushed("assistant", reply, n))]
           /\ clock' = clock + 1
           /\ response' = [Response("conversation", requests[n].convo.id, 200) EXCEPT
                             !.turn = n, !.reply = reply,
                             !.messageCount = Len(pushed)]
           /\ requests' = [requests EXCEPT ![n].gateway = "fulfilled",
                                            ![n].answers = Append(@, 200)]
    /\ req' = [req EXCEPT ![p] = Idle]
    /\ UNCHANGED <<conversations, nuuid, chat>>

\* a handler that answers with the reply and does not store it
ConversationSucceedUnstored(p, content) ==
    /\ req[p].pc = "await"
    /\ LET n == req[p].turn
           ref == requests[n].storedConvo
           reply == IF content # Empty THEN content ELSE Empty
       IN  /\ heap' = [heap EXCEPT ![ref] = [@ EXCEPT !.updatedAt = clock + 1]]
           /\ clock' = clock + 1
           /\ response' = [Response("conversation", requests[n].convo.id, 200) EXCEPT
                             !.turn = n, !.reply = reply,
                             !.messageCount = Len(heap[ref].messages)]
           /\ requests' = [requests EXCEPT ![n].gateway = "fulfilled",
                                            ![n].answers = Append(@, 200)]
    /\ req' = [req EXCEPT ![p] = Idle]
    /\ UNCHANGED <<conversations, nuuid, appended, chat>>

\* POST /conversation, lines 210-223: the gateway call returned `content`
ConversationSucceed(p, content) ==
    /\ req[p].pc = "await"
    /\ LET n == req[p].turn
           ref == requests[n].storedConvo
           reply == IF content # Empty THEN content ELSE Empty
           pushed == Append(heap[ref].messages, Message("assistant", reply))
       IN  /\ heap' = [heap EXCEPT ![ref] = [@ EXCEPT !.messages = pushed,
                                                      !.updatedAt = clock + 1]]
           /\ appended' = [appended EXCEPT ![ref] = Append(@, Pushed("assistant", reply, n))]
           /\ clock' = clock + 1
           /\ response' = [Response("conversation", requests[n].convo.id, 200) EXCEPT
                             !.turn = n, !.reply = reply,
                             !.messageCount = Len(pushed)]
           /\ requests' = [requests EXCEPT ![n].gateway = "fulfilled",
                                            ![n].answers = Append(@, 200)]
    /\ req' = [req EXCEPT ![p] = Idle]
    /\ UNCHANGED <<conversations, nuuid, chat>>

\* a catch block that takes the turn's user message back
ConversationFailRollback(p) ==
    /\ req[p].pc = "await"
    /\ LET ref == requests[req[p].turn].storedConvo
           kept == SelectSeq(heap[ref].messages,
                             LAMBDA m : m # Message("user", requests[req[p].turn].body.message))
       IN  heap' = [heap EXCEPT ![ref] = [@ EXCEPT !.messages = kept]]
    /\ response' = [Response("conversation", requests[req[p].turn].convo.id, 500)
                      EXCEPT !.turn = req[p].turn]
    /\ requests' = [requests EXCEPT ![req[p].turn].gateway = "rejected",
                                     ![req[p].turn].answers = Append(@, 500)]
    /\ req' = [req EXCEPT ![p] = Idle]
    /\ UNCHANGED <<conversations, clock, nuuid, appended, chat>>

\* a catch block that logs the error and writes no response
ConversationFailSilent(p) ==
    /\ req[p].pc = "await"
    /\ response' = NoResponse
    /\ requests' = [requests EXCEPT ![req[p].turn].gateway = "rejected"]
    /\ req' = [req EXCEPT ![p] = Idle]
    /\ UNCHANGED <<conversations, heap, clock, nuuid, appended, chat>>

\* POST /conversation, lines 224-227: the gateway call failed
ConversationFail(p) ==
    /\ req[p].pc = "await"
    /\ response' = [Response("conversation", requests[req[p].turn].convo.id, 500)
                      EXCEPT !.turn = req[p].turn]
    /\ requests' = [requests EXCEPT ![req[p].turn].gateway = "rejected",
                                     ![req[p].turn].answers = Append(@, 500)]
    /\ req' = [req EXCEPT ![p] = Idle]
    /\ UNCHANGED <<conversations, heap, clock, nuuid, appended, chat>>

\* a read that goes through getConversation, and so registers a missing id
GetConversationCreates(id) ==
    /\ LET g == getConversation(conversations, heap, id, UUID(nuuid + 1), clock + 1)
       IN  /\ conversations' = g.conversations
           /\ heap' = g.heap
           /\ appended' = IF g.created THEN Append(appended, <<>>) ELSE appended
           /\ clock' = IF g.created THEN clock + 1 ELSE clock
    /\ response' = IF id \in Live
                   THEN [Response("get", id, 200) EXCEPT
                           !.messageCount = Len(heap[conversations[id]].messages)]
                   ELSE Response("get", id, 404)
    /\ UNCHANGED <<req, nuuid, requests, chat>>

\* GET /conversation/:id, lines 231-245
GetConversation(id) ==
    /\ response' = IF id \in Live
                   THEN [Response("get", id, 200) EXCEPT
                           !.messageCount = Len(heap[conversations[id]].messages)]
                   ELSE Response("get", id, 404)
    /\ UNCHANGED <<conversations, heap, req, clock, nuuid, requests, appended, chat>>

\* a delete that answers success and leaves the entry in the Map
DeleteConversationKeeps(id) ==
    /\ response' = IF id \in Live THEN Response("delete", id, 200)
                   ELSE Response("delete", id, 404)
    /\ UNCHANGED <<conversations, heap, req, clock, nuuid, requests, appended, chat>>

\* DELETE /conversation/:id, lines 248-254
DeleteConversation(id) ==
    /\ IF id \in Live
       THEN /\ conversations' = [k \in Live \ {id} |-> conversations[k]]
            /\ response' = Response("delete", id, 200)
       ELSE /\ conversations' = conversations
            /\ response' = Response("delete", id, 404)
    /\ UNCHANGED <<heap, req, clock, nuuid, requests, appended, chat>>

\* the message list of lines 82-85 and 121-124
SingleTurn(systemPrompt, message) ==
    <<Message("system", IF systemPrompt # Empty THEN systemPrompt ELSE DefaultPrompt),
      Message("user", message)>>

\* the stateless handler that is started by a request with this body
ChatStarted(op, pc, message, model, systemPrompt) ==
    [NoChat EXCEPT
       !.op = op, !.pc = pc,
       !.body = [message |-> message, model |-> model, systemPrompt |-> systemPrompt],
       !.calls = 1,
       !.call = [model |-> resolveModel(model),
                 messages |-> SingleTurn(systemPrompt, message)]]

\* POST /chat with a missing or empty message: lines 76-78
ChatInvalid ==
    /\ response' = Response("chat", NoId, 400)
    /\ UNCHANGED <<conversations, heap, req, clock, nuuid, requests, appended, chat>>

\* a single-turn request that is kept as the first turn of a new session
ChatStartRegisters(message, model, systemPrompt) ==
    /\ chat.pc \in {"idle", "done"}
    /\ message # Empty
    /\ LET g == getConversation(conversations, heap, NoId, UUID(nuuid + 1), clock + 1)
           ref == g.conversations[g.convo.id]
       IN  /\ conversations' = g.conversations
           /\ heap' = [g.heap EXCEPT ![ref].messages = <<Message("user", message)>>]
           /\ appended' = Append(appended, <<Pushed("user", message, 0)>>)
    /\ clock' = clock + 1
    /\ nuuid' = nuuid + 1
    /\ chat' = ChatStarted("chat", "await", message, model, systemPrompt)
    /\ response' = NoResponse
    /\ UNCHANGED <<req, requests>>

\* POST /chat, lines 74-94: from the request to the gateway call
ChatStart(message, model, systemPrompt) ==
    /\ chat.pc \in {"idle", "done"}
    /\ message # Empty
    /\ chat' = ChatStarted("chat", "await", message, model, systemPrompt)
    /\ response' = NoResponse
    /\ UNCHANGED <<conversations, heap, req, clock, nuuid, requests, appended>>

\* POST /chat, lines 96-103: the gateway call returned `content`
ChatSucceed(content) ==
    /\ chat.op = "chat" /\ chat.pc = "await"
    /\ chat' = [chat EXCEPT !.pc = "done"]
    /\ response' = [Response("chat", NoId, 200) EXCEPT
                      !.reply = IF content # Empty THEN content ELSE Empty]
    /\ UNCHANGED <<conversations, heap, req, clock, nuuid, requests, appended>>

\* POST /chat, lines 104-107: the gateway call failed
ChatFail ==
    /\ chat.op = "chat" /\ chat.pc = "await"
    /\ chat' = [chat EXCEPT !.pc = "done"]
    /\ response' = Response("chat", NoId, 500)
    /\ UNCHANGED <<conversations, heap, req, clock, nuuid, requests, appended>>

\* POST /chat/stream with a missing or empty message: lines 115-117
StreamInvalid ==
    /\ response' = Response("stream", NoId, 400)
    /\ UNCHANGED <<conversations, heap, req, clock, nuuid, requests, appended, chat>>

\* POST /chat/stream, lines 113-142: from the request to the first pull on
\* the stream; setHeader sends nothing yet
StreamStart(message, model, systemPrompt) ==
    /\ chat.pc \in {"idle", "done"}
    /\ message # Empty
    /\ chat' = ChatStarted("stream", "streaming", message, model, systemPrompt)
    /\ response' = NoResponse
    /\ UNCHANGED <<conversations, heap, req, clock, nuuid, requests, appended>>

\* a loop that collects the fragments and relays none of them
StreamChunkBuffered(delta) ==
    /\ chat.op = "stream" /\ chat.pc = "streaming"
    /\ LET content == IF delta # Empty THEN delta ELSE Empty
       IN  chat' = [chat EXCEPT
                      !.chunks = @ + 1,
                      !.produced = Append(@, delta),
                      !.fullResponse = @ \o content]
    /\ response' = NoResponse
    /\ UNCHANGED <<conversations, heap, req, clock, nuuid, requests, appended>>

\* POST /chat/stream, lines 142-148: one turn of the loop, on a chunk whose
\* delta carries `delta` (Empty: no content in the chunk)
StreamChunk(delta) ==
    /\ chat.op = "stream" /\ chat.pc = "streaming"
    /\ LET content == IF delta # Empty THEN delta ELSE Empty
       IN  chat' = IF content # Empty
                   THEN [chat EXCEPT
                           !.chunks = @ + 1,
                           !.produced = Append(@, delta),
                           !.fullResponse = @ \o content,
                           !.written = Append(@, Event(content, FALSE, Empty, Empty))]
                   ELSE [chat EXCEPT !.chunks = @ + 1,
                                     !.produced = Append(@, delta)]
    /\ response' = NoResponse
    /\ UNCHANGED <<conversations, heap, req, clock, nuuid, requests, appended>>

\* POST /chat/stream, lines 150-151: the stream is exhausted
StreamEnd ==
    /\ chat.op = "stream" /\ chat.pc = "streaming"
    /\ chat' = [chat EXCEPT
                  !.pc = "done", !.ended = TRUE,
                  !.written = Append(@, Event(Empty, TRUE, chat.fullResponse, Empty))]
    /\ response' = [Response("stream", NoId, 200) EXCEPT !.reply = chat.fullResponse]
    /\ UNCHANGED <<conversations, heap, req, clock, nuuid, requests, appended>>

\* POST /chat/stream, lines 152-160: the stream failed.  res.headersSent is
\* true once res.write has been called.
StreamFail ==
    /\ chat.op = "stream" /\ chat.pc = "streaming"
    /\ IF chat.written = <<>>
       THEN /\ chat' = [chat EXCEPT !.pc = "done"]
            /\ response' = Response("stream", NoId, 500)
       ELSE /\ chat' = [chat EXCEPT
                          !.pc = "done", !.ended = TRUE,
                          !.written = Append(@, Event(Empty, TRUE, Empty, GatewayError))]
            /\ response' = Response("stream", NoId, 200)
    /\ UNCHANGED <<conversations, heap, req, clock, nuuid, requests, appended>>

\* ------------------------------------------------------------------ inputs
\* the lowest of the slots P that holds no suspended handler (0 if none)
FreeSlot(P) ==
    IF \E p \in P : req[p].pc = "idle"
    THEN CHOOSE p \in P : /\ req[p].pc = "idle"
                          /\ \A q \in P : req[q].pc = "idle" => p <= q
    ELSE 0

\* ids a path parameter can carry: a client-chosen one and the generated ones
PathIds == {"c1"} \cup {UUID(k) : k \in 1..nuuid}
\* conversationId of a request body: a string, a number, or absent
BodyIds == PathIds \cup {NumericId, NoId}
\* model and systemPrompt of a request body: both absent, or both given
NoOverrides == [model |-> Empty, systemPrompt |-> Empty]
Overrides == {NoOverrides, [model |-> "mistral", systemPrompt |-> "Answer briefly."]}

Start ==
    /\ nturns < MaxTurns
    /\ FreeSlot(Procs) # 0
    /\ \E id \in BodyIds, o \in Overrides :
          ConversationStart(FreeSlot(Procs), UserText(nturns + 1), id,
                            o.model, o.systemPrompt)

Succeed ==
    \E p \in Procs : ConversationSucceed(p, ReplyText(req[p].turn))

Fail == \E p \in Procs : ConversationFail(p)

Get == \E id \in PathIds : GetConversation(id)

Delete == \E id \in PathIds : DeleteConversation(id)

Next == ConversationInvalid \/ Start \/ Succeed \/ Fail \/ Get \/ Delete

Spec == Init /\ [][Next]_vars

\* ------------------------------------------- one session, one client, long
\* A client that names the session "c1" in every request and waits for each
\* response before it sends the next; it sends overrides at most once.
SeqStart ==
    /\ nturns < MaxSeqTurns
    /\ \E o \in IF \A n \in 1..nturns : requests[n].body.model = Empty
                THEN Overrides ELSE {NoOverrides} :
          ConversationStart(1, UserText(nturns + 1), "c1", o.model, o.systemPrompt)

SeqSucceed == ConversationSucceed(1, ReplyText(req[1].turn))

SeqFail == ConversationFail(1)

NextSeq == SeqStart \/ SeqSucceed \/ SeqFail

SpecSeq == Init /\ [][NextSeq]_vars

\* ------------------------------------------ one session, two clients, long
\* Two clients that name the session "c1", their turns interleaved; every
\* gateway call returns.
Racers == {1, 2}

RaceStart ==
    /\ nturns < MaxSeqTurns
    /\ FreeSlot(Racers) # 0
    /\ ConversationStart(FreeSlot(Racers), UserText(nturns + 1), "c1", Empty, Empty)

RaceSucceed == \E p \in Racers : ConversationSucceed(p, ReplyText(req[p].turn))

NextRace == RaceStart \/ RaceSucceed

SpecRace == Init /\ [][NextRace]_vars

\* ------------------------------------------------ gateway calls that end
\* Clients of the session "c1" and of sessions under generated ids, and
\* deletes; no handler stays suspended for ever: the promise that
\* client.chatCompletion returned is settled, one way or the other.
FairStart ==
    /\ nturns < MaxTurns
    /\ FreeSlot(Procs) # 0
    /\ \E id \in {"c1", NoId, NumericId} :
          ConversationStart(FreeSlot(Procs), UserText(nturns + 1), id, Empty, Empty)

FairDelete == DeleteConversation("c1")

NextFair == FairStart \/ Succeed \/ Fail \/ FairDelete

SpecFair ==
    /\ Init /\ [][NextFair]_vars
    /\ \A p \in Procs :
          WF_vars(ConversationSucceed(p, ReplyText(req[p].turn)) \/ ConversationFail(p))

\* --------------------------------------- one client, every kind of model
\* A client that waits for each response before it sends the next request:
\* turns on the session "c1" and single-turn requests, the model field
\* absent, an alias, an id that is no alias, or a name that every object
\* inherits.
ModelInputs == {Empty, "llama3", "mistral", "org/custom-model", "constructor"}

ChatText == "hello"
ChatReply == "hi there"

ModelTurn ==
    /\ nturns < MaxModelTurns
    /\ chat.pc # "await"
    /\ \E model \in ModelInputs :
          ConversationStart(1, UserText(nturns + 1), "c1", model, Empty)

ModelSucceed == ConversationSucceed(1, ReplyText(req[1].turn))

ModelFail == ConversationFail(1)

ModelChat ==
    /\ req[1].pc = "idle"
    /\ \E model \in ModelInputs : ChatStart(ChatText, model, Empty)

ModelChatSucceed == ChatSucceed(ChatReply)

NextModel == ModelTurn \/ ModelSucceed \/ ModelFail \/ ModelChat \/ ModelChatSucceed

SpecModel == Init /\ [][NextModel]_vars

\* -------------------------------------- stateless requests beside a session
\* Single-turn and streamed requests, one at a time, while a client of the
\* session "c1" sends turns and deletes the session.
ChatRequest == \E o \in Overrides : ChatStart(ChatText, o.model, o.systemPrompt)

ChatReturns == \E content \in {ChatReply, Empty} : ChatSucceed(content)

StreamRequest == \E o \in Overrides : StreamStart(ChatText, o.model, o.systemPrompt)

StreamData ==
    /\ chat.chunks < MaxChunks
    /\ \E delta \in {FragmentText(chat.chunks + 1), Empty} : StreamChunk(delta)

ChatTurn ==
    /\ nturns < MaxTurns
    /\ ConversationStart(1, UserText(nturns + 1), "c1", Empty, Empty)

ChatTurnSucceed == ConversationSucceed(1, ReplyText(req[1].turn))

ChatDelete == DeleteConversation("c1")

NextChat ==
    \/ ConversationInvalid \/ ChatInvalid \/ StreamInvalid
    \/ ChatRequest \/ ChatReturns \/ ChatFail
    \/ StreamRequest \/ StreamData \/ StreamEnd \/ StreamFail
    \/ ChatTurn \/ ChatTurnSucceed \/ ChatDelete

SpecChat == Init /\ [][NextChat]_vars

\* ================================================================= claims
Min(a, b) == IF a < b THEN a ELSE b

\* the transcript entries of a history, without the tags
Entries(log) == [i \in 1..Len(log) |-> Message(log[i].role, log[i].content)]

\* the response of the last step answers request n, whose gateway call failed
GatewayFailed(n) ==
    /\ response.op = "conversation" /\ response.turn = n
    /\ requests[n].gateway = "rejected"

\* the response of the last step answers request n with success
Succeeded(n) ==
    /\ response.op = "conversation" /\ response.status = 200
    /\ response.turn = n

\* every request so far has been answered with success (SpecSeq, SpecRace:
\* one session, whose object is heap[1])
AllSucceeded ==
    /\ nturns >= 1
    /\ \A n \in 1..nturns : requests[n].gateway = "fulfilled"

\* C1: after N sequential successful turns on a session that started empty
\* the stored transcript has min(2N, 20) entries.
C1_LengthAfterTurns ==
    AllSucceeded => Len(heap[1].messages) = Min(2 * nturns, HistoryLimit)

\* C2: the transcript stored at the end of a successful turn is the last 20
\* entries of (pre-turn transcript, user message, reply); after 11 sequential
\* successful turns its first entry is the one that was stored 3rd.
C2_TruncatedAfterReply ==
    /\ \A n \in 1..nturns :
          Succeeded(n) =>
             heap[requests[n].storedConvo].messages =
                SliceLast(requests[n].before.messages \o
                            <<Message("user", requests[n].body.message),
                              Message("assistant", response.reply)>>,
                          HistoryLimit)
    /\ (AllSucceeded /\ nturns = 11) =>
          heap[1].messages[1] = Entries(appended[1])[3]

Range(seq) == {seq[i] : i \in 1..Len(seq)}

\* where request n's user message stands in the history of its session object
UserPos(n) ==
    CHOOSE i \in 1..Len(appended[requests[n].storedConvo]) :
        /\ appended[requests[n].storedConvo][i].turn = n
        /\ appended[requests[n].storedConvo][i].role = "user"

\* no assistant message has been pushed for request n
NoReplyPushed(n) ==
    \A ref \in 1..Len(appended) : \A i \in 1..Len(appended[ref]) :
        ~(appended[ref][i].turn = n /\ appended[ref][i].role = "assistant")

\* C3 as stated: after the gateway call of turn K fails, K's user message is
\* in the stored transcript of its session and no assistant message was
\* appended for K; the caller gets a failure response, the gateway was
\* called once.
C3_FailureKeepsUserMessage ==
    \A n \in 1..nturns :
       GatewayFailed(n) =>
          /\ response.status = 500
          /\ requests[n].calls = 1
          /\ NoReplyPushed(n)
          /\ requests[n].convo.id \in Live
          /\ Message("user", requests[n].body.message) \in
                Range(heap[conversations[requests[n].convo.id]].messages)

\* C3 (amended): as C3, where the user message is in the stored transcript
\* provided the session was not deleted while the turn was suspended and
\* fewer than 20 messages were appended to it after that message.
C3_FailureKeepsUserMessageWhileLive ==
    \A n \in 1..nturns :
       GatewayFailed(n) =>
          /\ response.status = 500
          /\ requests[n].calls = 1
          /\ NoReplyPushed(n)
          /\ LET id == requests[n].convo.id
                 ref == requests[n].storedConvo
             IN  (/\ id \in Live
                  /\ conversations[id] = ref
                  /\ Len(appended[ref]) - UserPos(n) < HistoryLimit)
                 => Message("user", requests[n].body.message) \in
                       Range(heap[ref].messages)

\* a gateway call has just failed on a session that is still in the store,
\* after another turn wrote to the same session
C3_Witness ==
    \E n \in 1..nturns :
       /\ GatewayFailed(n)
       /\ requests[n].convo.id \in Live
       /\ conversations[requests[n].convo.id] = requests[n].storedConvo
       /\ Len(appended[requests[n].storedConvo]) > UserPos(n)

\* C4: after a failed gateway call the stored transcript is the pre-turn
\* transcript followed by the user message, nothing dropped, and updatedAt
\* has its pre-turn value.
C4_FailureCommitsOnlyUserMessage ==
    \A n \in 1..nturns :
       GatewayFailed(n) =>
          LET o == heap[requests[n].storedConvo]
          IN  /\ o.messages = Append(requests[n].before.messages,
                                     Message("user", requests[n].body.message))
              /\ o.updatedAt = requests[n].before.updatedAt

\* C5: the list passed to the gateway is the system prompt in force after
\* this turn's override, then the whole transcript the handler found, then
\* this turn's user message; nothing is removed by truncation.
C5_OutboundIsFullTranscript ==
    \A n \in 1..nturns :
       requests[n].calls = 1 =>
          LET r == requests[n]
              prompt == IF r.body.systemPrompt # Empty THEN r.body.systemPrompt
                        ELSE r.before.systemPrompt
              sent == r.call.messages
          IN  /\ sent = <<Message("system", prompt)>> \o r.before.messages \o
                        <<Message("user", r.body.message)>>
              /\ sent[Len(sent)] = Message("user", r.body.message)

\* a turn found a transcript of at least 20 entries and a prompt override
\* is in force
C5_Witness ==
    \E n \in 1..nturns :
       /\ requests[n].calls = 1
       /\ Len(requests[n].before.messages) >= HistoryLimit
       /\ Len(requests[n].call.messages) = Len(requests[n].before.messages) + 2
       /\ requests[n].call.messages[1].content # DefaultPrompt

\* C6: the stored transcript of every session object is a contiguous suffix,
\* in order, of everything ever appended to it.
C6_StoredIsSuffix ==
    \A ref \in 1..Len(heap) :
       /\ Len(heap[ref].messages) <= Len(appended[ref])
       /\ heap[ref].messages =
             SliceLast(Entries(appended[ref]), Len(heap[ref].messages))

\* entries have been dropped from a transcript that two interleaved turns
\* wrote to
C6_Witness ==
    /\ Len(heap) >= 1
    /\ Len(heap[1].messages) < Len(appended[1])
    /\ \E i \in 1..(Len(appended[1]) - 1) :
          /\ appended[1][i].role = "user" /\ appended[1][i + 1].role = "user"
          /\ i > Len(appended[1]) - Len(heap[1].messages)

\* the ids sessions have been registered under so far
UsedIds == {requests[n].convo.id : n \in 1..nturns}

\* the step accepts a POST /conversation request (and runs its handler up to
\* the gateway call)
TurnArrives == Len(requests') = Len(requests) + 1

\* what C7 says of the step in which a turn naming no id, or an id that is
\* not in the store, arrives
C7_Registers ==
    TurnArrives =>
       LET r == requests'[Len(requests')]
           named == r.body.conversationId
       IN  (named = NoId \/ named \notin Live) =>
              /\ response'.status # 404
              /\ r.created
              /\ r.convo.id # NoId
              /\ named # NoId => r.convo.id = named
              /\ r.convo.id \notin Live
              /\ r.convo.id \in DOMAIN conversations'
              /\ conversations'[r.convo.id] = r.storedConvo
              /\ r.before.messages = <<>>
              /\ r.before.systemPrompt = DefaultPrompt
              /\ r.before.model = MODELS(DEFAULT_MODEL)

\* the step answers with success the turn n that registered its session
FirstTurnSucceeds(n) ==
    /\ response'.op = "conversation" /\ response'.status = 200
    /\ response'.turn = n
    /\ requests[n].gateway = "pending" /\ requests'[n].gateway = "fulfilled"
    /\ requests[n].created

\* the stored transcript of turn n's session is [user message, reply]
FirstTranscript(n) ==
    /\ requests[n].convo.id \in DOMAIN conversations'
    /\ heap'[conversations'[requests[n].convo.id]].messages =
          <<Message("user", requests[n].body.message),
            Message("assistant", response'.reply)>>

\* C7 as stated: a turn naming an id that is not in the store, or no id,
\* never fails with NotFound and registers a new session (under the supplied
\* id or a fresh non-empty one) with empty transcript, default prompt and
\* default model; after that first turn succeeds the stored transcript is
\* [user message, assistant reply].
C7_NewSessionFirstTurn ==
    [][/\ C7_Registers
       /\ \A n \in 1..nturns : FirstTurnSucceeds(n) => FirstTranscript(n)]_vars

\* C7 (amended): as C7, where the stored transcript is [user message,
\* assistant reply] after the first turn succeeds provided no delete of the
\* session and no other turn on it was handled while that turn was suspended.
C7_NewSessionFirstTurnAlone ==
    [][/\ C7_Registers
       /\ \A n \in 1..nturns :
             (/\ FirstTurnSucceeds(n)
              /\ requests[n].convo.id \in Live
              /\ conversations[requests[n].convo.id] = requests[n].storedConvo
              /\ \A m \in 1..nturns :
                    m # n => requests[m].storedConvo # requests[n].storedConvo)
             => FirstTranscript(n)]_vars

\* a turn that named no id has registered a session under a generated id and
\* has been answered with success, the session still in the store
C7_Witness ==
    \E n \in 1..nturns :
       /\ Succeeded(n)
       /\ requests[n].created
       /\ requests[n].body.conversationId = NoId
       /\ requests[n].convo.id \in Live
       /\ conversations[requests[n].convo.id] = requests[n].storedConvo

\* C8: getConversation called with the id of a live session leaves the Map
\* and every session object as they are and returns the stored messages,
\* systemPrompt, model and createdAt; a second call returns the same.
C8_LookupChangesNothing ==
    /\ \A id \in Live :
          LET g == getConversation(conversations, heap, id, UUID(nuuid + 1), clock + 1)
              h == getConversation(g.conversations, g.heap, id, UUID(nuuid + 1), clock + 2)
              o == heap[conversations[id]]
          IN  /\ g.conversations = conversations
              /\ g.heap = heap
              /\ g.convo.messages = o.messages
              /\ g.convo.systemPrompt = o.systemPrompt
              /\ g.convo.model = o.model
              /\ g.convo.createdAt = o.createdAt
              /\ h.convo = g.convo
    /\ \A n \in 1..nturns :
          ~requests[n].created =>
             /\ requests[n].convo.messages = requests[n].before.messages
             /\ requests[n].convo.systemPrompt = requests[n].before.systemPrompt
             /\ requests[n].convo.model = requests[n].before.model
             /\ requests[n].convo.createdAt = requests[n].before.createdAt
             /\ \A m \in 1..(n - 1) :
                   requests[m].storedConvo = requests[n].storedConvo =>
                      requests[m].before.createdAt = requests[n].before.createdAt

\* a handler has looked up a live session that had a transcript and overrides
C8_Witness ==
    \E n \in 1..nturns :
       /\ ~requests[n].created
       /\ Len(requests[n].before.messages) > 0
       /\ requests[n].before.systemPrompt # DefaultPrompt
       /\ requests[n].convo.id \in Live

\* C9: after delete(id) succeeds id is not in the store, so get(id) and
\* delete(id) answer NotFound, and id stays out of the store until a turn
\* names it; deleting leaves every other live session as it was.
C9_DeletedStaysDeleted ==
    [][/\ (response'.op = "delete" /\ response'.id \in Live) =>
             /\ response'.status = 200
             /\ response'.id \notin DOMAIN conversations'
             /\ \A k \in Live \ {response'.id} :
                   /\ k \in DOMAIN conversations'
                   /\ conversations'[k] = conversations[k]
             /\ heap' = heap
       /\ (response'.op \in {"get", "delete"} /\ response'.id \notin Live) =>
             /\ response'.status = 404
             /\ response'.id \notin DOMAIN conversations'
       /\ \A id \in UsedIds :
             (id \notin Live /\ id \in DOMAIN conversations') =>
                /\ TurnArrives
                /\ requests'[Len(requests')].body.conversationId = id]_vars

\* get has just answered NotFound for an id that was deleted while a handler
\* working on that session is suspended
C9_Witness ==
    /\ response.op = "get" /\ response.status = 404
    /\ response.id \in UsedIds
    /\ \E p \in Procs : /\ req[p].pc = "await"
                        /\ requests[req[p].turn].convo.id = response.id
    /\ Live # {}

\* C10: NotFound is the answer of get and delete on an id that is not in the
\* store, and of nothing else; the store is then left as it was; a turn on an
\* id that is not in the store is never answered NotFound and registers it.
C10_NotFoundOnlyReadDelete ==
    [][/\ response'.status = 404 =>
             /\ response'.op \in {"get", "delete"}
             /\ response'.id \notin Live
       /\ (response'.op \in {"get", "delete"} /\ response'.id \notin Live) =>
             /\ response'.status = 404
             /\ conversations' = conversations
             /\ heap' = heap
       /\ (response'.op \in {"get", "delete"} /\ response'.id \in Live) =>
             response'.status = 200
       /\ TurnArrives =>
             /\ response'.status # 404
             /\ requests'[Len(requests')].convo.id \in DOMAIN conversations'
       /\ response'.op = "conversation" => response'.status \in {200, 400, 500}]_vars

\* delete has just answered NotFound, after a turn registered a session
C10_Witness ==
    /\ response.op = "delete" /\ response.status = 404
    /\ nturns >= 1
    /\ Live # {}

\* a model id: a text that is no alias (what MODELS yields for an inherited
\* key is a function, not a text)
FullyQualified(m) ==
    /\ m # Empty
    /\ m \notin Aliases
    /\ m \notin {MODELS(k) : k \in ProtoKeys}

\* C11: the model stored in every live session is a fully-qualified
\* identifier and never an alias of the registry, whatever model overrides
\* the turns so far carried.
C11_StoredModelFullyQualified ==
    \A id \in Live : FullyQualified(heap[conversations[id]].model)

\* resolve as section 4.1 of the specification defines it
Resolve(input) ==
    IF input = Empty THEN MODELS(DEFAULT_MODEL)
    ELSE IF input \in Aliases THEN MODELS(input)
    ELSE input

\* C12: resolveModel returns the id of the default alias for an absent
\* input (the same as for the default alias itself), the alias's id for an
\* alias, and every other input unchanged: in every call the handlers have
\* made, and whatever call they make next.
C12_ResolveAsSpecified ==
    /\ resolveModel(Empty) = resolveModel(DEFAULT_MODEL)
    /\ \A a \in Aliases : resolveModel(a) = MODELS(a) /\ FullyQualified(MODELS(a))
    /\ \A n \in 1..nturns :
          (requests[n].calls = 1 /\ requests[n].body.model # Empty) =>
             requests[n].call.model = Resolve(requests[n].body.model)
    /\ chat.calls = 1 => chat.call.model = Resolve(chat.body.model)

\* the latest request up to n, on the session object of request n, that
\* carried a model override (0: none did)
LastOverride(n) ==
    LET S == {m \in 1..n : /\ requests[m].storedConvo = requests[n].storedConvo
                           /\ requests[m].body.model # Empty}
    IN  IF S = {} THEN 0 ELSE CHOOSE m \in S : \A k \in S : k <= m

\* C13: a turn that carries a model override, and every later turn on the
\* session that carries none, calls the gateway with what the override
\* resolved to, until another override is applied; the override leaves the
\* transcript entries stored before it as they were.
C13_OverridePersists ==
    \A n \in 1..nturns :
       requests[n].calls = 1 =>
          /\ requests[n].call.model =
                IF LastOverride(n) = 0 THEN MODELS(DEFAULT_MODEL)
                ELSE resolveModel(requests[LastOverride(n)].body.model)
          /\ (requests[n].body.model # Empty /\ requests[n].gateway = "pending") =>
                heap[requests[n].storedConvo].messages =
                   Append(requests[n].before.messages,
                          Message("user", requests[n].body.message))

\* a turn with an override, then a turn without one that used the override,
\* then a turn that has just applied another override to a session that has
\* a transcript
C13_Witness ==
    \E a, b, c \in 1..nturns :
       /\ a < b /\ b < c
       /\ requests[a].body.model = "mistral"
       /\ requests[b].body.model = Empty
       /\ requests[b].call.model = MODELS("mistral")
       /\ requests[c].body.model = "org/custom-model"
       /\ requests[c].call.model = "org/custom-model"
       /\ requests[c].gateway = "pending"
       /\ Len(requests[c].before.messages) >= 3

\* C14: a turn or single-turn request without a message is answered with a
\* validation failure in the step in which it arrives: no gateway call is
\* made for it, no session is registered and no session object is written
\* to; a handler only ever calls the gateway with a message.
C14_InvalidRejected ==
    [][/\ response'.status = 400 =>
             /\ response'.op \in {"conversation", "chat", "stream"}
             /\ conversations' = conversations
             /\ heap' = heap
             /\ appended' = appended
             /\ requests' = requests
             /\ req' = req
             /\ chat' = chat
             /\ nuuid' = nuuid
       /\ \A n \in 1..Len(requests') : requests'[n].body.message # Empty
       /\ chat'.calls >= 1 => chat'.body.message # Empty]_vars

\* a turn without a message has just been rejected while a session is live,
\* a turn on it is suspended and a stream is being relayed
C14_Witness ==
    /\ response.op = "conversation" /\ response.status = 400
    /\ Live # {}
    /\ req[1].pc = "await"
    /\ chat.pc = "streaming" /\ chat.written # <<>>

\* the step belongs to a stateless handler: it starts one, resumes one, or
\* writes its response
StatelessStep == chat' # chat \/ response'.op \in {"chat", "stream"}

\* C15: POST /chat and POST /chat/stream call the gateway once, with the
\* list [system: the supplied prompt or the default, user: the message], and
\* no step of theirs, on success or on failure, registers, writes to or
\* deletes a session.
C15_StatelessLeavesStore ==
    [][StatelessStep =>
          /\ conversations' = conversations
          /\ heap' = heap
          /\ appended' = appended
          /\ requests' = requests
          /\ req' = req
          /\ chat'.op # "none" =>
                /\ chat'.calls = 1
                /\ chat'.call.messages =
                      <<Message("system", IF chat'.body.systemPrompt # Empty
                                          THEN chat'.body.systemPrompt
                                          ELSE DefaultPrompt),
                        Message("user", chat'.body.message)>>
          /\ chat.pc \in {"await", "streaming"} =>
                /\ chat'.calls = chat.calls
                /\ chat'.call = chat.call
                /\ chat'.body = chat.body]_vars

\* a stream that carried a prompt override has just ended with success,
\* while the session "c1" has a transcript and a turn on it is suspended
C15_Witness ==
    /\ response.op = "stream" /\ response.status = 200
    /\ chat.ended /\ chat.fullResponse # Empty
    /\ chat.call.messages[1].content # DefaultPrompt
    /\ "c1" \in Live
    /\ Len(heap[conversations["c1"]].messages) >= 3
    /\ req[1].pc = "await"

\* request n has been answered
Answered(n) == Len(requests[n].answers) = 1

\* C16: every accepted turn is answered once, with success or with a
\* failure response: never twice, and in the end, given that its gateway call
\* returns or fails; a handler that has answered holds no slot, so later
\* requests are served.
C16_EveryTurnAnswered ==
    /\ [](\A n \in 1..nturns :
            /\ Len(requests[n].answers) <= 1
            /\ \A i \in 1..Len(requests[n].answers) :
                  requests[n].answers[i] \in {200, 500}
            /\ requests[n].gateway = "fulfilled" => requests[n].answers = <<200>>
            /\ requests[n].gateway \in {"rejected", "none"} =>
                  requests[n].answers = <<500>>
            /\ Answered(n) => \A p \in Procs : ~(req[p].pc = "await" /\ req[p].turn = n))
    /\ \A n \in 1..MaxTurns : (nturns >= n) ~> (nturns >= n /\ Answered(n))

\* a turn failed on the gateway, and a later turn on the same session has
\* just been answered with success
C16_Witness ==
    \E n, m \in 1..nturns :
       /\ n < m
       /\ requests[n].gateway = "rejected" /\ requests[n].answers = <<500>>
       /\ requests[m].convo.id = requests[n].convo.id
       /\ Succeeded(m) /\ requests[m].answers = <<200>>

\* C17: every entry of every stored transcript has role user or assistant;
\* the system prompt is the first element of every list sent to the gateway
\* and no other element of it, and is never pushed onto a transcript.
C17_NoSystemInTranscript ==
    /\ \A ref \in 1..Len(heap) :
          /\ \A i \in 1..Len(heap[ref].messages) :
                heap[ref].messages[i].role \in {"user", "assistant"}
          /\ \A i \in 1..Len(appended[ref]) :
                appended[ref][i].role \in {"user", "assistant"}
    /\ \A n \in 1..nturns :
          requests[n].calls = 1 =>
             LET sent == requests[n].call.messages
             IN  /\ sent[1].role = "system"
                 /\ sent[1].content =
                       IF requests[n].body.systemPrompt # Empty
                       THEN requests[n].body.systemPrompt
                       ELSE requests[n].before.systemPrompt
                 /\ \A i \in 2..Len(sent) : sent[i].role \in {"user", "assistant"}

\* a turn on a session that has a reply in its transcript and a prompt
\* override called the gateway
C17_Witness ==
    \E n \in 1..nturns :
       /\ requests[n].calls = 1
       /\ Len(requests[n].call.messages) >= 4
       /\ requests[n].call.messages[1].content # DefaultPrompt
       /\ \E i \in 1..Len(heap[requests[n].storedConvo].messages) :
             heap[requests[n].storedConvo].messages[i].role = "assistant"

\* the first place of x in seq
Pos(seq, x) == CHOOSE i \in 1..Len(seq) : seq[i] = x /\ \A j \in 1..(i - 1) : seq[j] # x

UserEntry(n) == Message("user", requests[n].body.message)
ReplyEntry(n) == Message("assistant", ReplyText(n))

\* C18: turns on one session are not serialized.  For turns n < m on the
\* same session object: while n is suspended on the gateway, m has been
\* accepted, its outbound list holds n's user message and not n's reply, and
\* m's user message is stored after n's; and when n's reply arrives after m
\* started, it is stored after m's user message.
C18_TurnsInterleave ==
    \A n, m \in 1..nturns :
       (/\ n < m
        /\ requests[n].storedConvo = requests[m].storedConvo
        /\ requests[n].calls = 1 /\ requests[m].calls = 1)
       => LET t == heap[requests[n].storedConvo].messages
              sent == Range(requests[m].call.messages)
          IN  /\ requests[n].gateway = "pending" =>
                    /\ UserEntry(n) \in sent
                    /\ ReplyEntry(n) \notin sent
                    /\ ReplyEntry(n) \notin Range(t)
                    /\ Pos(t, UserEntry(n)) < Pos(t, UserEntry(m))
              /\ (requests[n].gateway = "fulfilled" /\ ReplyEntry(n) \notin sent) =>
                    /\ UserEntry(n) \in sent
                    /\ Pos(t, UserEntry(n)) < Pos(t, UserEntry(m))
                    /\ Pos(t, UserEntry(m)) < Pos(t, ReplyEntry(n))

\* the second turn on a live session started while the first was suspended:
\* the stored transcript is [first user message, second user message, first
\* reply] and the second turn sent [system, first user message, second user
\* message]
C18_Witness ==
    \E n, m \in 1..nturns :
       /\ n < m
       /\ requests[n].storedConvo = requests[m].storedConvo
       /\ requests[n].gateway = "fulfilled"
       /\ requests[m].gateway = "pending"
       /\ requests[n].convo.id \in Live
       /\ conversations[requests[n].convo.id] = requests[n].storedConvo
       /\ heap[requests[n].storedConvo].messages =
             <<UserEntry(n), UserEntry(m), ReplyEntry(n)>>
       /\ Len(requests[m].call.messages) = 3
       /\ requests[m].call.messages[2] = UserEntry(n)
       /\ requests[m].call.messages[3] = UserEntry(m)

\* how often x occurs in seq
Count(seq, x) == Cardinality({i \in 1..Len(seq) : seq[i] = x})

\* C19: two turns on the same session whose gateway calls both returned,
\* the session not deleted and no entry truncated: the stored transcript
\* holds both user messages and both replies once each, each reply after its
\* own user message, however the two turns were interleaved.
C19_NoAppendLost ==
    \A n, m \in 1..nturns :
       LET ref == requests[n].storedConvo
           id == requests[n].convo.id
       IN  (/\ n < m
            /\ requests[m].storedConvo = ref
            /\ requests[n].gateway = "fulfilled" /\ requests[m].gateway = "fulfilled"
            /\ id \in Live /\ conversations[id] = ref
            /\ Len(appended[ref]) <= HistoryLimit)
           => LET t == heap[ref].messages
              IN  /\ \A e \in {UserEntry(n), ReplyEntry(n), UserEntry(m), ReplyEntry(m)} :
                        Count(t, e) = 1
                  /\ Pos(t, UserEntry(n)) < Pos(t, ReplyEntry(n))
                  /\ Pos(t, UserEntry(m)) < Pos(t, ReplyEntry(m))

\* two turns on a live session, the second started while the first was
\* suspended and answered first: both replies are stored, the first turn's
\* last
C19_Witness ==
    \E n, m \in 1..nturns :
       /\ n < m
       /\ requests[n].storedConvo = requests[m].storedConvo
       /\ requests[n].convo.id \in Live
       /\ conversations[requests[n].convo.id] = requests[n].storedConvo
       /\ Succeeded(n)
       /\ heap[requests[n].storedConvo].messages =
             <<UserEntry(n), UserEntry(m), ReplyEntry(m), ReplyEntry(n)>>

\* C20 as stated: when a turn is answered with success and conversationId
\* c, c is in the store and the stored transcript of c holds the returned
\* reply, also when c was deleted (and named again by a new turn) while the
\* turn was suspended.
C20_SuccessSessionLive ==
    \A n \in 1..nturns :
       Succeeded(n) =>
          /\ response.id = requests[n].convo.id
          /\ response.id \in Live
          /\ Message("assistant", response.reply) \in
                Range(heap[conversations[response.id]].messages)

\* the object that turn n wrote to is the one registered under the turn's
\* id: no delete of that id was handled since the turn found or made it
NotDeleted(n) ==
    /\ requests[n].convo.id \in Live
    /\ conversations[requests[n].convo.id] = requests[n].storedConvo

\* C20 (amended): when a turn is answered with success and conversationId c
\* and no delete of c was handled while the turn was suspended, the stored
\* transcript of c holds the returned reply, as its last entry, and has the
\* length the response reports.
C20_SuccessSessionLiveUndeleted ==
    \A n \in 1..nturns :
       (Succeeded(n) /\ NotDeleted(n)) =>
          LET t == heap[conversations[response.id]].messages
          IN  /\ response.id = requests[n].convo.id
              /\ Len(t) >= 1
              /\ t[Len(t)] = Message("assistant", response.reply)
              /\ response.messageCount = Len(t)

\* a turn on a session that another turn wrote to meanwhile has just been
\* answered with success, the session still in the store
C20_Witness ==
    \E n, m \in 1..nturns :
       /\ n # m
       /\ Succeeded(n) /\ NotDeleted(n)
       /\ requests[m].storedConvo = requests[n].storedConvo
       /\ response.messageCount >= 3

\* the texts of seq, joined
RECURSIVE Concat(_)
Concat(seq) == IF seq = <<>> THEN Empty ELSE Head(seq) \o Concat(Tail(seq))

\* the content fields of a sequence of events
Contents(events) == [i \in 1..Len(events) |-> events[i].content]

\* what C21 says of the stream handler in a state
StreamRelayed(c) ==
    LET w == c.written
        data == SelectSeq(w, LAMBDA e : ~e.done)
        fragments == SelectSeq(c.produced, LAMBDA d : d # Empty)
    IN  /\ Contents(data) = fragments
        /\ \A i \in 1..Len(w) : w[i].done => i = Len(w)
        /\ c.ended = (w # <<>> /\ w[Len(w)].done)
        /\ c.ended => c.pc = "done"
        /\ (c.pc = "done" /\ w # <<>>) => c.ended
        /\ c.ended =>
              \/ /\ w[Len(w)].error = Empty
                 /\ w[Len(w)].fullResponse = Concat(fragments)
              \/ /\ w[Len(w)].error # Empty
                 /\ fragments # <<>>

\* C21: on POST /chat/stream, once an event has been written, the events
\* with done = false carry the non-empty fragments in the order the gateway
\* produced them; the handler ends by writing one event with done = true, the
\* last event: a completion event whose fullResponse is all relayed fragments
\* joined, or an error event when the stream failed; it writes nothing after
\* that event.
C21_StreamOrderAndEnd ==
    [][/\ chat'.op = "stream" => StreamRelayed(chat')
       /\ (chat.op = "stream" /\ chat.ended) =>
             \/ chat'.written = chat.written
             \/ chat'.written = <<>> /\ chat'.pc \in {"await", "streaming"}]_vars

\* a stream has just failed after two fragments, with a chunk without
\* content between them, were relayed
C21_Witness ==
    /\ chat.op = "stream" /\ chat.ended
    /\ Len(chat.written) = 3
    /\ chat.written[3].error # Empty
    /\ Len(chat.produced) = 3
    /\ chat.produced[2] = Empty

====
